---- MODULE Spec2Model ----
(***************************************************************************)
(* Model of src/src/main.cpp: the event-driven WASAPI render loop of main  *)
(* (start, priming silence, streaming loop, drain silence, stop) and the   *)
(* sample generator generate_samples with its waveform functions.          *)
(*                                                                         *)
(* Numbers.  The code computes times and sample values in double.  The     *)
(* model keeps them exact: the clock `time` is the number of additions of  *)
(* `increment` (= 1 / samples_per_second) made to it so far, so the time   *)
(* in seconds is time / nSamplesPerSec, and a normalized value is a pair   *)
(* <<numerator, denominator>>.  The uint32_t quantities of main (frame    *)
(* and byte counts) are plain integers: with the device never reporting    *)
(* more padding than its buffer holds, no subtraction of main goes below   *)
(* zero and no product comes near 2^32.                                    *)
(***************************************************************************)
EXTENDS Integers, Sequences, FiniteSets, TLC

\* ------------------------------------------------------------------ bounds

\* Sample rates tried: 1 .. MaxRate frames per second.
MaxRate == 3
\* Device buffer sizes tried: 1 .. MaxBufferSize frames.
MaxBufferSize == 3
\* Device periods tried: 1 .. MaxPeriod half seconds.
MaxPeriod == 4
\* Channel counts tried: 1 .. MaxChannels.
MaxChannels == 2
\* SpecGen: the frames generated at most, over at most MaxGenFills fills.
MaxGenFrames == 4
MaxGenFills == 3

\* ------------------------------------------------------- program constants

frequency == 220
duration == 5
\* volume = 0.3, kept as a fraction
volumeNum == 3
volumeDen == 10
\* _I16_MAX
I16_MAX == 32767
\* REFERENCE_TIME units (100 ns) per second: the 1e7 of line 181
RefTimesPerSec == 10000000
\* REFERENCE_TIME units in half a second (the unit of the periods tried)
HalfSecond == RefTimesPerSec \div 2

TwoTo16 == 65536

\* (short) of an integer value: two's complement narrowing.
I16(x) == LET m == x % TwoTo16 IN IF m >= TwoTo16 \div 2 THEN m - TwoTo16 ELSE m

\* sizeof(T) for the two instantiations of generate_samples.
SizeOf(T) == IF T = "Float" THEN 4 ELSE 2

VARIABLES
    \* negotiated with the device before the session (lines 136-179)
    sample_type,        \* RenderSampleType: "Float" or "PCM16bit"
    format,             \* WAVEFORMATEX: nSamplesPerSec, nChannels, nBlockAlign
    buffer_size,        \* GetBufferSize: the device buffer, in frames
    default_period,     \* GetDevicePeriod, in REFERENCE_TIME units
    \* locals of main
    pc,                 \* the statement main is at
    written_buffers,
    padding,
    frames_available,
    time,
    wait_result,
    data,               \* the samples written into the window held
    \* the device (IAudioClient / IAudioRenderClient / the event)
    dev_padding,        \* frames queued in the device buffer
    dev_held,           \* frames of the window handed out by GetBuffer, or None
    dev_running,        \* between Start and Stop
    event,              \* samples_ready_event is signalled
    \* history
    lastCall,           \* the most recent device call and whether it succeeded
    lastCommit,         \* the most recent ReleaseBuffer that succeeded
    startCalls,         \* calls of Start that succeeded
    stopCalls,          \* calls of Stop that succeeded
    silentCommits,      \* commits flagged AUDCLNT_BUFFERFLAGS_SILENT
    audioCommits,       \* commits flagged 0
    audioFrames,        \* frames of the commits flagged 0
    signal,             \* the samples of the commits flagged 0, in order
    lastWait,           \* the most recent wait: the state it was made in, its result
    gen,                \* SpecGen: the generator the fills use
    \* SpecPure: a function of the program applied on its own
    applied,            \* the function and its arguments
    returned            \* the value it returned

cfgvars == <<sample_type, format, buffer_size, default_period>>
mainvars == <<pc, written_buffers, padding, frames_available, time, wait_result, data>>
devvars == <<dev_padding, dev_held, dev_running, event>>
histvars == <<lastCall, lastCommit, startCalls, stopCalls, silentCommits, audioCommits, audioFrames, signal>>
purevars == <<applied, returned>>
vars == <<cfgvars, mainvars, devvars, histvars, lastWait, gen, purevars>>

None == 0 - 1
NoCall == [op |-> "none", arg |-> 0, ok |-> TRUE]
NoCommit == [frames |-> 0, silent |-> FALSE, state |-> "Idle"]
NoWait == [state |-> "Idle", result |-> "none"]
NoArg == [op |-> "none"]

\* ------------------------------------------------------ waveform functions

\* floor(a / b) for b > 0 (\div rounds down for a positive divisor).
Floor(a, b) == a \div b

\* A normalized value is <<num, den>> with den > 0, meaning num / den.
\* The phase time * frequency is (t * f) / sps with t the clock in increments.

\* sign (lines 55-57): (0 < val) - (val < 0)
sign(val) == (IF 0 < val THEN 1 ELSE 0) - (IF val < 0 THEN 1 ELSE 0)

\* sin(2 pi x) for x = (t * f) / sps, as a fraction.  The library's sin is not
\* rational; it is taken here by Bhaskara's formula on each half period,
\* sin(pi y) ~ 16 y (1 - y) / (5 - 4 y (1 - y)) for 0 <= y <= 1, which is
\* exact wherever the sine is rational (0, 1/2 and 1 in absolute value) and
\* within 0.002 of it elsewhere.
Sin2Pi(f, t, sps) ==
    LET r == (2 * t * f) % (2 * sps)        \* 2 * sps * frac(x)
        a == IF r <= sps THEN r ELSE r - sps \* y = a / sps
        s == IF r <= sps THEN 1 ELSE 0 - 1
    IN  <<s * 16 * a * (sps - a), 5 * sps * sps - 4 * a * (sps - a)>>

\* sine (lines 59-61): sin(2 * M_PI * frequency * time)
sine(f, t, sps) == Sin2Pi(f, t, sps)

\* Mutant: the rounding term of the floor left out.
sawtooth_floor(f, t, sps) ==
    <<2 * (t * f - sps * Floor(t * f, sps)), sps>>

\* sawtooth (lines 71-73): 2 * (x - floor(x + 0.5)), x = time * frequency
sawtooth(f, t, sps) ==
    <<2 * (t * f - sps * Floor(2 * t * f + sps, 2 * sps)), sps>>

\* triangle (lines 63-65): 2 * abs(2 * (x - floor(x + 0.5))) - 1
triangle(f, t, sps) ==
    LET s == 2 * (t * f - sps * Floor(2 * t * f + sps, 2 * sps))
        a == IF s < 0 THEN 0 - s ELSE s
    IN  <<2 * a - sps, sps>>

\* square (lines 67-69): sign(sin(2 pi x)).  sin(2 pi x) is positive in the
\* first half of each period, negative in the second, zero at x = k / 2
\* (the exact sine; the double sin of a rounded multiple of pi is a tiny
\* number of either sign, except at time 0).
square(f, t, sps) ==
    LET r == (2 * t * f) % (2 * sps)       \* 2 * sps * frac(x), in 0 .. 2*sps-1
        s == IF r = 0 \/ r = sps THEN 0 ELSE IF r < sps THEN 1 ELSE 0 - 1
    IN  <<sign(s), 1>>

Generators == {"sine", "sawtooth", "square", "triangle"}

\* The call through the function pointer `generator` (line 91).
generator(g, f, t, sps) ==
    CASE g = "sawtooth" -> sawtooth(f, t, sps)
      [] g = "square"   -> square(f, t, sps)
      [] g = "triangle" -> triangle(f, t, sps)
      [] g = "sine"     -> sine(f, t, sps)

\* Truncation toward zero of a / b (b > 0): the double -> short conversion.
Trunc(a, b) == IF a >= 0 THEN a \div b ELSE 0 - ((0 - a) \div b)

\* Lines 94-99: the sample stored for `value` in representation T.
\*   float: (float)(volume * value), kept as the fraction it is
\*   short: (short)(volume * value * _I16_MAX)
\* The volume is the fraction volNum / volDen.
encodeSample(T, volNum, volDen, value) ==
    IF T = "Float"
    THEN <<volNum * value[1], volDen * value[2]>>
    ELSE I16(Trunc(volNum * value[1] * I16_MAX, volDen * value[2]))

\* The encoding with the volume main passes (line 114).
encode(T, value) == encodeSample(T, volumeNum, volumeDen, value)

\* Mutant: only the first channel of a frame written.
ChannelLoop_first(j, channel_count, T, value) ==
    IF j < 1 THEN <<encode(T, value)>> ELSE <<>>

\* Lines 93-100: the inner loop, one sample per channel.
RECURSIVE ChannelLoop(_, _, _, _)
ChannelLoop(j, channel_count, T, value) ==
    IF j < channel_count
    THEN <<encode(T, value)>> \o ChannelLoop(j + 1, channel_count, T, value)
    ELSE <<>>

\* Lines 90-103: the outer loop.  i runs over data's elements in steps of
\* channel_count while i < length / sizeof(T); t is the local `time`.
RECURSIVE FrameLoop(_, _, _, _, _, _, _, _)
FrameLoop(i, n, t, f, channel_count, sps, T, g) ==
    IF i < n
    THEN LET value == generator(g, f, t, sps)
             rest == FrameLoop(i + channel_count, n, t + 1, f, channel_count, sps, T, g)
         IN  [data |-> ChannelLoop(0, channel_count, T, value) \o rest.data,
              time |-> rest.time]
    ELSE [data |-> <<>>, time |-> t]

\* Mutant: the clock not read from *initial_time, each fill starting at 0
\* (the initial_time == nullptr branch of line 88).
generate_samples_restart(T, length, f, channel_count, sps, initial_time, g) ==
    FrameLoop(0, length \div SizeOf(T), 0, f, channel_count, sps, T, g)

\* Mutant: the clock not stored back to *initial_time (lines 105-107 left out).
generate_samples_nostore(T, length, f, channel_count, sps, initial_time, g) ==
    [data |-> FrameLoop(0, length \div SizeOf(T), initial_time, f, channel_count,
                        sps, T, g).data,
     time |-> initial_time]

\* generate_samples<T> (lines 75-108) called with a non-null initial_time:
\* the samples written to buffer, and the value stored back to *initial_time
\* (lines 105-107).
generate_samples(T, length, f, channel_count, sps, initial_time, g) ==
    FrameLoop(0, length \div SizeOf(T), initial_time, f, channel_count, sps, T, g)

\* ------------------------------------------------- locals computed by main

\* Line 181: (uint32_t)((default_period / 1e7) * nSamplesPerSec + 0.5)
buffer_size_per_period ==
    Floor(2 * default_period * format.nSamplesPerSec + RefTimesPerSec,
          2 * RefTimesPerSec)

\* Line 182
buffer_size_bytes == buffer_size_per_period * format.nBlockAlign

\* Mutant: the byte total not rounded up to whole periods.
data_length_exact == format.nSamplesPerSec * duration * format.nBlockAlign

\* Line 183
data_length ==
    (format.nSamplesPerSec * duration * format.nBlockAlign)
        + (buffer_size_bytes - 1)

\* Line 184
buffer_count == data_length \div buffer_size_bytes

\* Mutant: the whole capacity found free taken as the window.
frames_to_write_available == frames_available

\* Line 217
frames_to_write == buffer_size_bytes \div format.nBlockAlign

\* Mutant: the capacity queried released instead of the window's frame count.
StreamReleaseFrames_available == frames_available

\* Line 246: the frame count handed to ReleaseBuffer in the streaming loop.
StreamReleaseFrames == frames_to_write

\* Mutant: the capacity test made strict.
HasCapacity_strict(avail) == buffer_size_bytes < avail * format.nBlockAlign

\* Mutant: the capacity test left out.
HasCapacity_always(avail) == TRUE

\* Line 216: the capacity test of a streaming wake-up.
HasCapacity(avail) == buffer_size_bytes <= avail * format.nBlockAlign

\* Mutant: a silence window of one period.
SilenceFrames_period(pad) == buffer_size_per_period

\* Lines 202-203 and 259-260: the size of a silence window.
SilenceFrames(pad) == buffer_size - pad

\* Mutant: the drain window committed with flags 0.
drainFlags_zero == FALSE

\* The flags of the three ReleaseBuffer calls (lines 203, 246, 260): TRUE is
\* AUDCLNT_BUFFERFLAGS_SILENT, FALSE is 0.
primeFlags == TRUE
streamFlags == FALSE
drainFlags == TRUE

\* Lines 230 and 242: the generator each sample type is rendered with.
GeneratorOf(T) == IF T = "Float" THEN "sawtooth" ELSE "square"

\* Mutant: the failure logged and the run continued.
ExitOnError_continue(ok, next) == next

\* EXIT_ON_ERROR (lines 20-36): a failed HRESULT ends the process.
ExitOnError(ok, next) == IF ok THEN next ELSE "exit"

\* Mutant: the loop left for the Stop call, the drain silence skipped.
LoopTest_nodrain(wb) == IF wb < buffer_count THEN "wait" ELSE "stop"

\* Line 206: the loop test, taken after every pass through the loop body.
LoopTest(wb) == IF wb < buffer_count THEN "wait" ELSE "drain_wait"

\* The lifecycle state main is in, by the statement it is at.
State ==
    CASE pc = "start" -> "Idle"
      [] pc \in {"get_service", "prime_wait", "prime_padding", "prime_get",
                 "prime_release"} -> "Priming"
      [] pc \in {"wait", "padding", "get", "fill", "release"} -> "Streaming"
      [] pc \in {"drain_wait", "drain_padding", "drain_get", "drain_release",
                 "stop"} -> "Draining"
      [] pc = "done" -> "Stopped"
      [] pc = "exit" -> "Failed"
      [] OTHER -> "None"

\* ------------------------------------------------------------- the device

\* IAudioRenderClient::GetBuffer succeeds only with no window outstanding and
\* a frame count within the free part of the device buffer.
DevGetBufferOk(n) == dev_held = None /\ n <= buffer_size - dev_padding

\* IAudioRenderClient::ReleaseBuffer succeeds only for the window handed out.
DevReleaseOk(n) == dev_held /= None /\ n <= dev_held

WaitResults == {"WAIT_OBJECT_0", "WAIT_FAILED", "WAIT_OTHER"}

\* WaitForSingleObject(samples_ready_event, INFINITE) returning r.  The event
\* is auto-reset: a wait it satisfies resets it.
WaitReturns(r) ==
    /\ r = "WAIT_OBJECT_0" => event
    /\ event' = IF r = "WAIT_OBJECT_0" THEN FALSE ELSE event

\* The engine plays one queued frame.
DeviceDrain ==
    /\ dev_running /\ pc \notin {"exit", "done"}
    /\ dev_padding > 0
    /\ dev_padding' = dev_padding - 1
    /\ UNCHANGED <<cfgvars, purevars, lastWait, mainvars, dev_held, dev_running, event, histvars, gen>>

\* The engine signals samples_ready_event.
DeviceSignal ==
    /\ dev_running /\ pc \notin {"exit", "done"}
    /\ ~event
    /\ event' = TRUE
    /\ UNCHANGED <<cfgvars, purevars, lastWait, mainvars, dev_padding, dev_held, dev_running, histvars, gen>>

\* ---------------------------------------------------------------- main

Formats ==
    {[nSamplesPerSec |-> r, nChannels |-> c, nBlockAlign |-> c * SizeOf(T), type |-> T] :
        r \in 1..MaxRate, c \in 1..MaxChannels, T \in {"Float", "PCM16bit"}}

\* The state at line 192: the format, the buffer size and the period are what
\* the device gave; the period is at least one frame and at most the buffer.
Init ==
    /\ \E fm \in Formats :
         /\ sample_type = fm.type
         /\ format = [nSamplesPerSec |-> fm.nSamplesPerSec,
                      nChannels |-> fm.nChannels,
                      nBlockAlign |-> fm.nBlockAlign]
    /\ buffer_size \in 1..MaxBufferSize
    /\ default_period \in {k * HalfSecond : k \in 1..MaxPeriod}
    /\ buffer_size_per_period >= 1
    /\ buffer_size_per_period <= buffer_size
    /\ pc = "start"
    /\ written_buffers = 0
    /\ padding = 0
    /\ frames_available = 0
    /\ time = 0
    /\ wait_result = "none"
    /\ data = <<>>
    /\ dev_padding = 0
    /\ dev_held = None
    /\ dev_running = FALSE
    /\ event = FALSE
    /\ lastCall = NoCall
    /\ lastCommit = NoCommit
    /\ startCalls = 0
    /\ stopCalls = 0
    /\ silentCommits = 0
    /\ audioCommits = 0
    /\ audioFrames = 0
    /\ signal = <<>>
    /\ lastWait = NoWait
    /\ gen = GeneratorOf(sample_type)
    /\ applied = NoArg
    /\ returned = 0

Call(op, arg, ok) == [op |-> op, arg |-> arg, ok |-> ok]

\* Line 192: client->Start()
Start ==
    /\ pc = "start"
    /\ \E ok \in BOOLEAN :
         /\ lastCall' = Call("Start", 0, ok)
         /\ dev_running' = ok
         /\ startCalls' = IF ok THEN startCalls + 1 ELSE startCalls
         /\ pc' = ExitOnError(ok, "get_service")
    /\ UNCHANGED <<cfgvars, purevars, lastWait, written_buffers, padding, frames_available, time,
                   wait_result, data, dev_padding, dev_held, event, lastCommit,
                   stopCalls, silentCommits, audioCommits, audioFrames, signal, gen>>

\* Line 195: client->GetService(IAudioRenderClient)
GetService ==
    /\ pc = "get_service"
    /\ \E ok \in BOOLEAN :
         /\ lastCall' = Call("GetService", 0, ok)
         /\ pc' = ExitOnError(ok, "prime_wait")
    /\ UNCHANGED <<cfgvars, purevars, lastWait, written_buffers, padding, frames_available, time,
                   wait_result, data, devvars, lastCommit,
                   startCalls, stopCalls, silentCommits, audioCommits, audioFrames, signal, gen>>

\* Mutant: the result of the wait examined, a failed wait fatal.
SilenceWait_checked(at, next) ==
    /\ pc = at
    /\ \E r \in WaitResults :
         /\ WaitReturns(r)
         /\ lastWait' = [state |-> State, result |-> r]
         /\ pc' = ExitOnError(r /= "WAIT_FAILED", next)
    /\ UNCHANGED <<cfgvars, purevars, written_buffers, padding, frames_available, time,
                   wait_result, data, dev_padding, dev_held, dev_running,
                   histvars, gen>>

\* Lines 199 and 256: a wait whose result is discarded.
SilenceWait(at, next) ==
    /\ pc = at
    /\ \E r \in WaitResults :
         /\ WaitReturns(r)
         /\ lastWait' = [state |-> State, result |-> r]
    /\ pc' = next
    /\ UNCHANGED <<cfgvars, purevars, written_buffers, padding, frames_available, time,
                   wait_result, data, dev_padding, dev_held, dev_running,
                   histvars, gen>>

\* Lines 201 and 258: client->GetCurrentPadding(&padding)
SilencePadding(at, next) ==
    /\ pc = at
    /\ \E ok \in BOOLEAN :
         /\ lastCall' = Call("GetCurrentPadding", 0, ok)
         /\ padding' = IF ok THEN dev_padding ELSE padding
         /\ pc' = ExitOnError(ok, next)
    /\ UNCHANGED <<cfgvars, purevars, lastWait, written_buffers, frames_available, time,
                   wait_result, data, devvars, lastCommit,
                   startCalls, stopCalls, silentCommits, audioCommits, audioFrames, signal, gen>>

\* Lines 202 and 259: render->GetBuffer(buffer_size - padding, &tmp)
SilenceGetBuffer(at, next) ==
    /\ pc = at
    /\ \E ok \in BOOLEAN :
         /\ ok => DevGetBufferOk(SilenceFrames(padding))
         /\ lastCall' = Call("GetBuffer", SilenceFrames(padding), ok)
         /\ dev_held' = IF ok THEN SilenceFrames(padding) ELSE dev_held
         /\ pc' = ExitOnError(ok, next)
    /\ UNCHANGED <<cfgvars, purevars, lastWait, written_buffers, padding, frames_available, time,
                   wait_result, data, dev_padding, dev_running, event, lastCommit,
                   startCalls, stopCalls, silentCommits, audioCommits, audioFrames, signal, gen>>

\* IAudioRenderClient::ReleaseBuffer(n, flags) succeeding: the frames are
\* queued, the window is gone, and the commit is recorded.
ReleaseBuffer(n, silent) ==
    /\ dev_padding' = dev_padding + n
    /\ dev_held' = None
    /\ lastCommit' = [frames |-> n, silent |-> silent, state |-> State]
    /\ silentCommits' = IF silent THEN silentCommits + 1 ELSE silentCommits
    /\ audioCommits' = IF silent THEN audioCommits ELSE audioCommits + 1
    /\ audioFrames' = IF silent THEN audioFrames ELSE audioFrames + n
    /\ signal' = IF silent THEN signal ELSE signal \o data

\* Mutant: a silence window counted as a buffer written.
SilenceRelease_counted(at, next, flags) ==
    /\ pc = at
    /\ \E ok \in BOOLEAN :
         /\ ok => DevReleaseOk(SilenceFrames(padding))
         /\ lastCall' = Call("ReleaseBuffer", SilenceFrames(padding), ok)
         /\ IF ok THEN /\ ReleaseBuffer(SilenceFrames(padding), flags)
                       /\ written_buffers' = written_buffers + 1
                  ELSE UNCHANGED <<dev_padding, dev_held, lastCommit, silentCommits,
                                   audioCommits, audioFrames, signal, written_buffers>>
         /\ pc' = ExitOnError(ok, next)
    /\ UNCHANGED <<cfgvars, purevars, lastWait, padding, frames_available, time,
                   wait_result, data, dev_running, event, startCalls, stopCalls, gen>>

\* Lines 203 and 260: render->ReleaseBuffer(buffer_size - padding, flags)
SilenceRelease(at, next, flags) ==
    /\ pc = at
    /\ \E ok \in BOOLEAN :
         /\ ok => DevReleaseOk(SilenceFrames(padding))
         /\ lastCall' = Call("ReleaseBuffer", SilenceFrames(padding), ok)
         /\ IF ok THEN ReleaseBuffer(SilenceFrames(padding), flags)
                  ELSE UNCHANGED <<dev_padding, dev_held, lastCommit, silentCommits,
                                   audioCommits, audioFrames, signal>>
         /\ pc' = ExitOnError(ok, next)
    /\ UNCHANGED <<cfgvars, purevars, lastWait, written_buffers, padding, frames_available, time,
                   wait_result, data, dev_running, event, startCalls, stopCalls, gen>>

PrimeWait == SilenceWait("prime_wait", "prime_padding")
PrimePadding == SilencePadding("prime_padding", "prime_get")
PrimeGetBuffer == SilenceGetBuffer("prime_get", "prime_release")
PrimeRelease == SilenceRelease("prime_release", LoopTest(written_buffers), primeFlags)

\* Lines 207-212 and the default of the switch: the wait of a streaming
\* wake-up and the dispatch on its result.
StreamWait ==
    /\ pc = "wait"
    /\ \E r \in WaitResults :
         /\ WaitReturns(r)
         /\ wait_result' = r
         /\ lastWait' = [state |-> State, result |-> r]
         /\ pc' = CASE r = "WAIT_FAILED" -> ExitOnError(FALSE, LoopTest(written_buffers))
                    [] r = "WAIT_OBJECT_0" -> "padding"
                    [] OTHER -> LoopTest(written_buffers)
    /\ UNCHANGED <<cfgvars, purevars, written_buffers, padding, frames_available, time,
                   data, dev_padding, dev_held, dev_running, histvars, gen>>

\* Lines 214-216: the capacity query and the capacity test.
StreamPadding ==
    /\ pc = "padding"
    /\ \E ok \in BOOLEAN :
         /\ lastCall' = Call("GetCurrentPadding", 0, ok)
         /\ padding' = IF ok THEN dev_padding ELSE padding
         /\ frames_available' = IF ok THEN buffer_size - padding' ELSE frames_available
         /\ pc' = ExitOnError(ok, IF HasCapacity(frames_available')
                                  THEN "get" ELSE LoopTest(written_buffers))
    /\ UNCHANGED <<cfgvars, purevars, lastWait, written_buffers, time, wait_result, data, devvars,
                   lastCommit, startCalls, stopCalls, silentCommits, audioCommits,
                   audioFrames, signal, gen>>

\* Line 219: render->GetBuffer(frames_to_write, &data)
StreamGetBuffer ==
    /\ pc = "get"
    /\ \E ok \in BOOLEAN :
         /\ ok => DevGetBufferOk(frames_to_write)
         /\ lastCall' = Call("GetBuffer", frames_to_write, ok)
         /\ dev_held' = IF ok THEN frames_to_write ELSE dev_held
         /\ pc' = ExitOnError(ok, "fill")
    /\ UNCHANGED <<cfgvars, purevars, lastWait, written_buffers, padding, frames_available, time,
                   wait_result, data, dev_padding, dev_running, event, lastCommit,
                   startCalls, stopCalls, silentCommits, audioCommits, audioFrames, signal, gen>>

\* Lines 220-245: generate_samples<T>(data, buffer_size_bytes, ..., &time, g)
Fill ==
    /\ pc = "fill"
    /\ LET r == generate_samples(sample_type, buffer_size_bytes, frequency,
                                 format.nChannels, format.nSamplesPerSec, time, gen)
       IN  /\ data' = r.data
           /\ time' = r.time
    /\ pc' = "release"
    /\ UNCHANGED <<cfgvars, purevars, lastWait, written_buffers, padding, frames_available,
                   wait_result, devvars, histvars, gen>>

\* Lines 246-248: render->ReleaseBuffer(frames_to_write, 0); written_buffers += 1
StreamRelease ==
    /\ pc = "release"
    /\ \E ok \in BOOLEAN :
         /\ ok => DevReleaseOk(StreamReleaseFrames)
         /\ lastCall' = Call("ReleaseBuffer", StreamReleaseFrames, ok)
         /\ IF ok THEN /\ ReleaseBuffer(StreamReleaseFrames, streamFlags)
                       /\ written_buffers' = written_buffers + 1
                  ELSE UNCHANGED <<dev_padding, dev_held, lastCommit, silentCommits,
                                   audioCommits, audioFrames, signal, written_buffers>>
         /\ pc' = ExitOnError(ok, LoopTest(written_buffers'))
    /\ UNCHANGED <<cfgvars, purevars, lastWait, padding, frames_available, time,
                   wait_result, data, dev_running, event, startCalls, stopCalls, gen>>

DrainWait == SilenceWait("drain_wait", "drain_padding")
DrainPadding == SilencePadding("drain_padding", "drain_get")
DrainGetBuffer == SilenceGetBuffer("drain_get", "drain_release")
DrainRelease == SilenceRelease("drain_release", "stop", drainFlags)

\* Line 263: client->Stop()
Stop ==
    /\ pc = "stop"
    /\ \E ok \in BOOLEAN :
         /\ lastCall' = Call("Stop", 0, ok)
         /\ dev_running' = IF ok THEN FALSE ELSE dev_running
         /\ stopCalls' = IF ok THEN stopCalls + 1 ELSE stopCalls
         /\ pc' = ExitOnError(ok, "done")
    /\ UNCHANGED <<cfgvars, purevars, lastWait, written_buffers, padding, frames_available, time,
                   wait_result, data, dev_padding, dev_held, event, lastCommit,
                   startCalls, silentCommits, audioCommits, audioFrames, signal, gen>>

PacerNext ==
    \/ Start
    \/ GetService
    \/ PrimeWait
    \/ PrimePadding
    \/ PrimeGetBuffer
    \/ PrimeRelease
    \/ StreamWait
    \/ StreamPadding
    \/ StreamGetBuffer
    \/ Fill
    \/ StreamRelease
    \/ DrainWait
    \/ DrainPadding
    \/ DrainGetBuffer
    \/ DrainRelease
    \/ Stop

\* Every interleaving of main with a device that plays queued frames and
\* signals the event at any moment, and any device call may fail.
Next ==
    \/ PacerNext
    \/ DeviceDrain
    \/ DeviceSignal

Spec == Init /\ [][Next]_vars

\* ------------------------------------------------- a device with a period

\* One device period: the engine plays one period of the queued frames (all
\* of them when fewer are queued) and signals the event.  It does so only
\* when main has handled the previous signal and is blocked in a wait.
DevicePeriod ==
    /\ dev_running
    /\ pc \in {"prime_wait", "wait", "drain_wait"}
    /\ ~event
    /\ dev_padding' = IF dev_padding > buffer_size_per_period
                      THEN dev_padding - buffer_size_per_period ELSE 0
    /\ event' = TRUE
    /\ UNCHANGED <<cfgvars, purevars, lastWait, mainvars, dev_held, dev_running, histvars, gen>>

NextPeriodic ==
    \/ PacerNext
    \/ DevicePeriod

SpecPeriodic == Init /\ [][NextPeriodic]_vars

\* ------------------------------------------------------- a fair device

\* No device call and no wait fails.
NoFailure == pc' /= "exit"

PacerStep == PacerNext /\ NoFailure

NextLive ==
    \/ PacerStep
    \/ DeviceDrain
    \/ DeviceSignal

\* main runs whenever it can, the engine keeps playing what is queued and
\* keeps signalling the event.
SpecLive ==
    /\ Init
    /\ [][NextLive]_vars
    /\ WF_vars(PacerStep)
    /\ WF_vars(DeviceDrain)
    /\ WF_vars(DeviceSignal)

\* ------------------------------------------- generate_samples on its own

\* Any format, any generator, the clock at 0 (line 190), nothing generated.
InitGen ==
    /\ \E fm \in Formats :
         /\ sample_type = fm.type
         /\ format = [nSamplesPerSec |-> fm.nSamplesPerSec,
                      nChannels |-> fm.nChannels,
                      nBlockAlign |-> fm.nBlockAlign]
    /\ gen \in Generators
    /\ buffer_size = MaxGenFrames
    /\ default_period = HalfSecond
    /\ pc = "generate"
    /\ written_buffers = 0
    /\ padding = 0
    /\ frames_available = 0
    /\ time = 0
    /\ wait_result = "none"
    /\ data = <<>>
    /\ dev_padding = 0
    /\ dev_held = None
    /\ dev_running = FALSE
    /\ event = FALSE
    /\ lastCall = NoCall
    /\ lastCommit = NoCommit
    /\ startCalls = 0
    /\ stopCalls = 0
    /\ silentCommits = 0
    /\ audioCommits = 0
    /\ audioFrames = 0
    /\ signal = <<>>
    /\ lastWait = NoWait
    /\ applied = NoArg
    /\ returned = 0

\* One call generate_samples<T>(data, n frames' bytes, ..., &time, gen): the
\* window filled is appended to the signal generated so far.
GenFill(n) ==
    /\ pc = "generate"
    /\ written_buffers < MaxGenFills
    /\ audioFrames + n <= MaxGenFrames
    /\ LET r == generate_samples(sample_type, n * format.nBlockAlign, frequency,
                                 format.nChannels, format.nSamplesPerSec, time, gen)
       IN  /\ data' = r.data
           /\ time' = r.time
           /\ signal' = signal \o r.data
    /\ written_buffers' = written_buffers + 1
    /\ audioFrames' = audioFrames + n
    /\ UNCHANGED <<cfgvars, purevars, lastWait, pc, padding, frames_available, wait_result, devvars,
                   lastCall, lastCommit, startCalls, stopCalls, silentCommits,
                   audioCommits, gen>>

NextGen == \E n \in 0..MaxGenFrames : GenFill(n)

SpecGen == InitGen /\ [][NextGen]_vars

\* ------------------------------- the waveforms and the encoding on their own

\* The frequencies, times (in increments) and rates a generator is applied
\* to, and the volumes and values a sample is encoded from.
MaxFreq == 4
MaxTicks == 8
MaxDen == 6

\* Fractions num / den with 0 <= num <= den <= MaxDen.
UnitFractions == {v \in (0..MaxDen) \X (1..MaxDen) : v[1] <= v[2]}

\* The arguments of one generator call (line 91).
GeneratorArgs ==
    [op : {"generator"}, g : Generators, f : (1..MaxFreq) \cup {frequency},
     t : 0..MaxTicks, sps : 1..MaxDen]

\* The template argument, volume and value of one sample (lines 94-99).
EncodeArgs ==
    [op : {"encode"}, T : {"Float", "PCM16bit"}, vol : UnitFractions,
     value : {<<s * v[1], v[2]>> : s \in {0 - 1, 1}, v \in UnitFractions}]

InitPure ==
    /\ sample_type = "PCM16bit"
    /\ format = [nSamplesPerSec |-> 1, nChannels |-> 1, nBlockAlign |-> 2]
    /\ gen = GeneratorOf(sample_type)
    /\ buffer_size = 1
    /\ default_period = HalfSecond
    /\ pc = "pure"
    /\ written_buffers = 0
    /\ padding = 0
    /\ frames_available = 0
    /\ time = 0
    /\ wait_result = "none"
    /\ data = <<>>
    /\ dev_padding = 0
    /\ dev_held = None
    /\ dev_running = FALSE
    /\ event = FALSE
    /\ lastCall = NoCall
    /\ lastCommit = NoCommit
    /\ startCalls = 0
    /\ stopCalls = 0
    /\ silentCommits = 0
    /\ audioCommits = 0
    /\ audioFrames = 0
    /\ signal = <<>>
    /\ lastWait = NoWait
    /\ applied \in GeneratorArgs \cup EncodeArgs
    /\ returned = 0

\* generator(frequency, time) for one of the four waveforms (line 91).
ApplyGenerator ==
    /\ pc = "pure"
    /\ applied.op = "generator"
    /\ returned' = generator(applied.g, applied.f, applied.t, applied.sps)
    /\ pc' = "applied"
    /\ UNCHANGED <<cfgvars, written_buffers, padding, frames_available, time,
                   wait_result, data, devvars, histvars, lastWait, gen, applied>>

\* The sample generate_samples<T> stores for a value at a volume (lines 94-99).
ApplyEncode ==
    /\ pc = "pure"
    /\ applied.op = "encode"
    /\ returned' = encodeSample(applied.T, applied.vol[1], applied.vol[2],
                                applied.value)
    /\ pc' = "applied"
    /\ UNCHANGED <<cfgvars, written_buffers, padding, frames_available, time,
                   wait_result, data, devvars, histvars, lastWait, gen, applied>>

NextPure == ApplyGenerator \/ ApplyEncode

SpecPure == InitPure /\ [][NextPure]_vars

\* ================================================================ claims

\* The frames requested: nSamplesPerSec * duration (the first term of line
\* 183, in frames).
totalFramesRequested == format.nSamplesPerSec * duration

\* C1: on every run that reaches Stopped, the real-audio frames committed
\* during Streaming are exactly nSamplesPerSec * duration (and the samples
\* that many times the channel count), whatever the chunk size.
C1_ExactDuration ==
    pc = "done" =>
        /\ audioFrames = totalFramesRequested
        /\ Len(signal) = totalFramesRequested * format.nChannels

\* C2: every window request, in Priming, Streaming and Draining, asks for no
\* more frames than the capacity buffer_size - padding returned by the most
\* recent capacity query, and so for no more than the device has free at the
\* time of the request, however the device drained in between.
C2_RequestWithinCapacity ==
    /\ pc \in {"prime_get", "drain_get"} =>
         /\ SilenceFrames(padding) <= buffer_size - padding
         /\ SilenceFrames(padding) <= buffer_size - dev_padding
    /\ pc = "get" =>
         /\ frames_to_write <= buffer_size - padding
         /\ frames_to_write <= buffer_size - dev_padding
    /\ lastCall.op = "GetBuffer" =>
         /\ lastCall.arg >= 0
         /\ lastCall.arg <= buffer_size - padding
         /\ lastCall.arg <= buffer_size - dev_padding

\* C2 witness: a streaming request granted for less than the device has free,
\* the device having drained between the capacity query and the request.
C2_Witness ==
    /\ pc = "fill"
    /\ lastCall = Call("GetBuffer", frames_to_write, TRUE)
    /\ dev_padding < padding
    /\ audioCommits >= 1

\* The order of the lifecycle states.
LifecycleOrder ==
    {<<"Idle", "Priming">>, <<"Priming", "Streaming">>,
     <<"Streaming", "Draining">>, <<"Draining", "Stopped">>}

C3_Inv ==
    \* Start precedes every other device call, and so every window request
    /\ lastCall.op \in {"GetService", "GetCurrentPadding", "GetBuffer",
                        "ReleaseBuffer", "Stop"} => startCalls = 1
    /\ dev_held /= None => startCalls = 1
    /\ startCalls <= 1
    \* exactly one silence commit precedes the first real-audio commit
    /\ State = "Streaming" => silentCommits = 1
    /\ audioCommits >= 1 => silentCommits >= 1
    /\ ~lastCommit.silent /\ lastCommit /= NoCommit => lastCommit.state = "Streaming"
    \* Stop is called once, after the drain commit has succeeded
    /\ stopCalls <= 1
    /\ lastCall.op = "Stop" =>
         silentCommits = 2 /\ lastCommit.silent /\ lastCommit.state = "Draining"
    /\ State = "Stopped" <=> stopCalls = 1

C3_Step ==
    \* the states follow one another in order, none skipped or revisited
    /\ \/ State' = State
       \/ <<State, State'>> \in LifecycleOrder
       \/ State' = "Failed"
    \* no real-audio window is committed after Streaming has ended
    /\ State \in {"Draining", "Stopped"} => audioCommits' = audioCommits

\* C3: a run without a device failure passes through Idle, Priming,
\* Streaming, Draining, Stopped in that order, none skipped or revisited;
\* Start precedes every window request, exactly one silence commit precedes
\* the first real-audio commit, no real-audio window is committed after
\* Streaming has ended, and Stop is called once, after the drain commit.
C3_Lifecycle == []C3_Inv /\ [][C3_Step]_vars

\* C3 witness: Stopped reached through all five states.
C3_Witness ==
    /\ State = "Stopped"
    /\ startCalls = 1 /\ stopCalls = 1
    /\ silentCommits = 2
    /\ audioCommits >= 2

\* C4: phase continuity.  The signal made by any sequence of fills that share
\* the clock, each of any size, is the signal one call makes for all the
\* frames from time 0, and the clock ends where that call's clock ends.
C4_Continuity ==
    LET whole == generate_samples(sample_type, audioFrames * format.nBlockAlign,
                                  frequency, format.nChannels,
                                  format.nSamplesPerSec, 0, gen)
    IN  /\ signal = whole.data
        /\ time = whole.time

\* C4 witness: three fills, the frames split unevenly, the signal not constant.
C4_Witness ==
    /\ pc = "generate"
    /\ written_buffers = 3
    /\ audioFrames = MaxGenFrames
    /\ Len(data) = 2 * format.nChannels
    /\ \E i, j \in 1..Len(signal) : signal[i] /= signal[j]

\* The clock counts the real-audio frames committed, and those of the window
\* filled and not yet committed (or whose commit failed).
C5_Inv ==
    /\ pc \notin {"release", "exit"} => time = audioFrames
    /\ pc = "release" => time = audioFrames + dev_held
    /\ pc = "exit" =>
         \/ time = audioFrames
         \/ /\ lastCall = Call("ReleaseBuffer", StreamReleaseFrames, FALSE)
            /\ time = audioFrames + dev_held

\* Frame i of the real audio committed (counted from 0) carries, on every
\* channel, the value of the generator at time i / nSamplesPerSec.
C5_FrameTimes ==
    /\ Len(signal) = audioFrames * format.nChannels
    /\ \A i \in 0..(audioFrames - 1) : \A j \in 1..format.nChannels :
         signal[i * format.nChannels + j] =
             encode(sample_type, generator(gen, frequency, i, format.nSamplesPerSec))

C5_Step ==
    /\ time' >= time
    /\ time' /= time => /\ pc = "fill"
                        /\ time' - time = Len(data') \div format.nChannels
                        /\ time' - time = dev_held

\* C5: the clock is never reset or rewound and advances by one increment
\* (1 / nSamplesPerSec) per real-audio frame written: it always equals the
\* number of real-audio frames filled so far, in increments.
C5_Clock == []C5_Inv /\ []C5_FrameTimes /\ [][C5_Step]_vars

\* C5 witness: the clock after several fills, before the next one.
C5_Witness ==
    /\ pc = "fill"
    /\ audioCommits >= 2
    /\ time = audioFrames
    /\ time > frames_to_write

C6_Inv ==
    \* no window is outstanding when main waits, queries or requests
    /\ pc \in {"start", "get_service", "prime_wait", "prime_padding", "prime_get",
               "wait", "padding", "get", "drain_wait", "drain_padding",
               "drain_get", "stop", "done"} => dev_held = None
    \* a commit is made only for an outstanding request, with its frame count
    /\ pc \in {"prime_release", "drain_release"} =>
         dev_held /= None /\ SilenceFrames(padding) = dev_held
    /\ pc \in {"fill", "release"} => dev_held /= None
    /\ pc = "release" => StreamReleaseFrames = dev_held
    \* no request is refused for a window being outstanding
    /\ lastCall.op = "GetBuffer" /\ ~lastCall.ok => dev_held = None

C6_Step ==
    \* a request hands out the window asked for, none being outstanding
    /\ dev_held' /= dev_held /\ dev_held' /= None =>
         dev_held = None /\ lastCall' = Call("GetBuffer", dev_held', TRUE)
    \* a commit hands back the outstanding window with its frame count
    /\ silentCommits' + audioCommits' /= silentCommits + audioCommits =>
         /\ dev_held /= None /\ dev_held' = None
         /\ lastCommit'.frames = dev_held
         /\ lastCall' = Call("ReleaseBuffer", dev_held, TRUE)
    /\ dev_held /= None /\ dev_held' = None =>
         silentCommits' + audioCommits' = silentCommits + audioCommits + 1

\* C6: main never holds more than one window: every request that succeeds
\* is followed by a commit of the same frame count before main waits again
\* or makes another request, and no commit is made without an outstanding
\* request.
C6_OneWindow == []C6_Inv /\ [][C6_Step]_vars

\* C6 witness: a streaming window outstanding after earlier windows were
\* requested and committed.
C6_Witness ==
    /\ pc = "release"
    /\ dev_held = frames_to_write
    /\ audioCommits >= 1
    /\ silentCommits = 1

\* C7: every window committed in Priming or Draining is handed to the device
\* as silence, and no window committed in Streaming is.
C7_Silence ==
    lastCommit /= NoCommit =>
        /\ lastCommit.state \in {"Priming", "Streaming", "Draining"}
        /\ lastCommit.state \in {"Priming", "Draining"} => lastCommit.silent
        /\ lastCommit.state = "Streaming" => ~lastCommit.silent
        /\ silentCommits + audioCommits >= 1

\* C7 witness: the drain window committed as silence after real audio.
C7_Witness ==
    /\ lastCommit.state = "Draining"
    /\ lastCommit.silent
    /\ audioCommits >= 1
    /\ silentCommits = 2

C8_Inv ==
    /\ ~lastCall.ok => pc = "exit"
    /\ State = "Stopped" => lastCall.ok /\ wait_result /= "WAIT_FAILED"
    /\ wait_result = "WAIT_FAILED" => pc = "exit"

C8_Step ==
    pc = "exit" \/ ~lastCall.ok =>
        UNCHANGED <<mainvars, dev_held, dev_running, histvars, lastWait>>

\* C8: a failure of any device call, in any lifecycle state, ends the
\* session at once: the call is not retried, no device call follows it, and
\* Stopped is not reached.
C8_FailureIsFatal == []C8_Inv /\ [][C8_Step]_vars

\* C8 witness: a commit failing in the middle of Streaming.
C8_Witness ==
    /\ pc = "exit"
    /\ lastCall = Call("ReleaseBuffer", frames_to_write, FALSE)
    /\ audioCommits >= 1
    /\ dev_held /= None

\* C9: no underrun.  With a device that plays one period of queued frames
\* per period and signals once per period, main handling each signal before
\* the next, and a device buffer larger than one period, frames are queued
\* in the device at every moment from the priming commit to the last
\* Streaming commit.
C9_NoUnderrun ==
    (buffer_size > buffer_size_per_period /\ State = "Streaming") =>
        dev_padding > 0

\* C9 witness: the device has played a period of real audio, main has not
\* yet refilled it, and frames are still queued.
C9_Witness ==
    /\ State = "Streaming"
    /\ pc = "get"
    /\ audioCommits >= 2
    /\ buffer_size > buffer_size_per_period
    /\ dev_padding = buffer_size - buffer_size_per_period

\* C10: termination.  With the event signalled again and again, the device
\* playing what is queued, no call failing and the period within the device
\* buffer, main reaches Stopped.
C10_Terminates == <>(State = "Stopped")

\* C10 witness: Stopped reached with every one of the buffer_count windows
\* committed and both silence windows around them.
C10_Witness ==
    /\ State = "Stopped"
    /\ audioCommits = buffer_count
    /\ silentCommits = 2
    /\ buffer_count >= 2

\* C11: for every waveform (sine, square, triangle, sawtooth), every
\* frequency f > 0 and every time t >= 0, the value generated lies in
\* [-1, 1].
C11_Range ==
    (pc = "applied" /\ applied.op = "generator") =>
        /\ returned[2] > 0
        /\ 0 - returned[2] <= returned[1]
        /\ returned[1] <= returned[2]

\* C11 witness: a sawtooth at a positive time reaches the lower end of the
\* range.
C11_Witness ==
    /\ pc = "applied"
    /\ applied.op = "generator"
    /\ applied.g = "sawtooth"
    /\ applied.t > 0
    /\ returned[1] = 0 - returned[2]

C12_Inv ==
    pc \in {"get", "fill", "release"} =>
        frames_available >= buffer_size_per_period

C12_Step ==
    (/\ pc = "padding"
     /\ pc' \notin {"padding", "exit"}
     /\ frames_available' < buffer_size_per_period)
    => /\ pc' = "wait"
       /\ State' = "Streaming"
       /\ lastCall' = Call("GetCurrentPadding", 0, TRUE)
       /\ UNCHANGED <<time, written_buffers, data, dev_padding, dev_held,
                      lastCommit, silentCommits, audioCommits, audioFrames,
                      signal>>

\* C12: a Streaming wake-up whose capacity query finds less than one period
\* free changes nothing: main goes straight back to the wait, in Streaming,
\* with no window requested or committed and the clock and the counts of
\* frames and buffers written as they were; and main is at a window request,
\* fill or commit only after a query that found a period free.
C12_NoCapacityNoEffect == []C12_Inv /\ [][C12_Step]_vars

\* C12 witness: back at the wait after a wake-up that found some room, but
\* less than a period, with real audio already committed.
C12_Witness ==
    /\ pc = "wait"
    /\ wait_result = "WAIT_OBJECT_0"
    /\ lastCall = Call("GetCurrentPadding", 0, TRUE)
    /\ 0 < frames_available
    /\ frames_available < buffer_size_per_period
    /\ audioCommits >= 1

C13_Step ==
    /\ (/\ pc = "padding"
        /\ pc' \notin {"padding", "exit"}
        /\ frames_available' >= buffer_size_per_period)
       => /\ pc' = "get"
          /\ lastCall' = Call("GetCurrentPadding", 0, TRUE)
          /\ UNCHANGED <<dev_held, written_buffers, audioCommits>>
    /\ (pc = "get" /\ pc' \notin {"get", "exit"})
       => /\ pc' = "fill"
          /\ lastCall' = Call("GetBuffer", buffer_size_per_period, TRUE)
          /\ dev_held = None
          /\ dev_held' = buffer_size_per_period
          /\ UNCHANGED <<written_buffers, audioCommits>>
    /\ (pc = "fill" /\ pc' /= "fill")
       => /\ pc' = "release"
          /\ Len(data') = buffer_size_per_period * format.nChannels
          /\ time' = time + buffer_size_per_period
          /\ UNCHANGED <<dev_held, written_buffers, audioCommits>>
    /\ (pc = "release" /\ pc' \notin {"release", "exit"})
       => /\ pc' \in {"wait", "drain_wait"}
          /\ lastCall' = Call("ReleaseBuffer", buffer_size_per_period, TRUE)
          /\ lastCommit' = [frames |-> buffer_size_per_period, silent |-> FALSE,
                            state |-> "Streaming"]
          /\ dev_held' = None
          /\ written_buffers' = written_buffers + 1
          /\ audioCommits' = audioCommits + 1
          /\ audioFrames' = audioFrames + buffer_size_per_period

\* C13: a Streaming wake-up whose capacity query finds at least one period
\* free requests one window of exactly one period of frames, however much is
\* free, fills it, commits that same frame count and adds one to
\* written_buffers; the next window request comes only after another wait.
C13_OneChunkPerWakeup == [][C13_Step]_vars

\* C13 witness: a second window of one period committed and counted at a
\* wake-up that found more than a period free.
C13_Witness ==
    /\ pc = "wait"
    /\ lastCall = Call("ReleaseBuffer", buffer_size_per_period, TRUE)
    /\ frames_available > buffer_size_per_period
    /\ lastCommit.frames = buffer_size_per_period
    /\ written_buffers = 2
    /\ audioFrames = 2 * buffer_size_per_period

C14_Inv ==
    /\ pc \in {"prime_get", "drain_get"} =>
          /\ lastCall = Call("GetCurrentPadding", 0, TRUE)
          /\ dev_padding <= padding
    /\ pc \in {"prime_release", "drain_release"} =>
          dev_held = buffer_size - padding

C14_Step ==
    /\ (pc \in {"prime_padding", "drain_padding"} /\ pc' \notin {pc, "exit"})
       => padding' = dev_padding
    /\ (pc \in {"prime_get", "drain_get"} /\ pc' \notin {pc, "exit"})
       => /\ lastCall' = Call("GetBuffer", buffer_size - padding, TRUE)
          /\ dev_held' = buffer_size - padding
    /\ (pc \in {"prime_release", "drain_release"} /\ pc' \notin {pc, "exit"})
       => /\ lastCall' = Call("ReleaseBuffer", buffer_size - padding, TRUE)
          /\ lastCommit'.frames = buffer_size - padding
          /\ dev_padding' = dev_padding + (buffer_size - padding)
    /\ (pc = "prime_release" /\ pc' \notin {pc, "exit"} /\ dev_padding = padding)
       => dev_padding' = buffer_size

\* C14: the priming window and the drain window are each requested, and
\* committed, with buffer_size minus the padding that the query made just
\* before the request returned; the priming commit leaves buffer_size frames
\* queued when the device played none since the query.
C14_SilenceWindowSize == []C14_Inv /\ [][C14_Step]_vars

\* C14 witness: a drain window smaller than the device buffer committed, the
\* priming window having filled the buffer.
C14_Witness ==
    /\ pc = "stop"
    /\ silentCommits = 2
    /\ lastCommit.state = "Draining"
    /\ lastCommit.frames = buffer_size - padding
    /\ 0 < padding
    /\ padding < buffer_size

\* The integer nearest to a / b, halves away from zero (b > 0).
RoundNearest(a, b) ==
    IF a >= 0 THEN (2 * a + b) \div (2 * b)
              ELSE 0 - ((2 * (0 - a) + b) \div (2 * b))

\* C15: for every volume in [0, 1] and every value in [-1, 1] the 16-bit
\* sample stored is volume * value * INT16_MAX rounded to the nearest
\* integer, and lies in [INT16_MIN, INT16_MAX]; volume 1 and value 1 give
\* INT16_MAX.
C15_RoundNearest ==
    (pc = "applied" /\ applied.op = "encode" /\ applied.T = "PCM16bit") =>
        /\ returned = RoundNearest(applied.vol[1] * applied.value[1] * I16_MAX,
                                   applied.vol[2] * applied.value[2])
        /\ 0 - I16_MAX - 1 <= returned
        /\ returned <= I16_MAX
        /\ (applied.vol = <<1, 1>> /\ applied.value = <<1, 1>>)
              => returned = I16_MAX

C16_Step ==
    (written_buffers' = written_buffers + 1) =>
        LET F == audioFrames' - audioFrames
            C == format.nChannels
        IN  /\ Len(data') = F * C
            /\ time' = time + F
            /\ \A k \in 0..(F - 1) : \A j \in 1..C :
                  data'[k * C + j] =
                      encode(sample_type,
                             generator(gen, frequency, time + k,
                                       format.nSamplesPerSec))

\* C16: a fill of a window of F frames with C channels writes exactly F * C
\* samples: frame k of the window, at the clock's value plus k increments,
\* fills the C adjacent places k * C + 1 .. k * C + C, every channel with the
\* same value.
C16_FillLayout == [][C16_Step]_vars

\* C16 witness: a second fill of two frames of two channels, the channels of
\* a frame equal and the two frames different.
C16_Witness ==
    /\ pc = "generate"
    /\ written_buffers = 2
    /\ format.nChannels = 2
    /\ Len(data) = 4
    /\ data[1] = data[2]
    /\ data[3] = data[4]
    /\ data[1] /= data[3]

\* The least number of chunks that hold total frames.
CeilDiv(total, chunk) ==
    CHOOSE k \in 0..total : k * chunk >= total /\ (k - 1) * chunk < total

C17_Inv ==
    LET count == CeilDiv(totalFramesRequested, buffer_size_per_period)
    IN  /\ written_buffers = audioCommits
        /\ audioFrames = audioCommits * buffer_size_per_period
        /\ lastCommit.state = "Streaming" =>
              lastCommit.frames = buffer_size_per_period
        /\ State \in {"Idle", "Priming"} => written_buffers = 0
        /\ State = "Streaming" => written_buffers < count
        /\ State \in {"Draining", "Stopped"} => audioCommits = count
        /\ written_buffers <= count

C17_Step ==
    LET count == CeilDiv(totalFramesRequested, buffer_size_per_period)
    IN  (pc \in {"prime_release", "wait", "padding", "release"}
         /\ pc' \in {"wait", "drain_wait"})
        => (pc' = "wait" <=> written_buffers' < count)

\* C17: written_buffers is the number of streaming windows committed, each
\* of them one full period of frames; the loop is entered again exactly
\* while written_buffers is below ceil(nSamplesPerSec * duration / period),
\* and when it is left exactly that many windows have been committed.
C17_WindowCount == []C17_Inv /\ [][C17_Step]_vars

\* C17 witness: the loop left with a duration that is not a whole number of
\* periods.
C17_Witness ==
    /\ pc = "drain_wait"
    /\ totalFramesRequested % buffer_size_per_period /= 0
    /\ written_buffers * buffer_size_per_period > totalFramesRequested
    /\ (written_buffers - 1) * buffer_size_per_period < totalFramesRequested

C18_Inv ==
    /\ State \in {"Idle", "Priming"} => (time = 0 /\ written_buffers = 0)
    /\ (pc \in {"get", "fill"} /\ written_buffers = 0) => time = 0
    /\ State \in {"Draining", "Stopped"} =>
          /\ time = written_buffers * buffer_size_per_period
          /\ written_buffers = buffer_count

C18_Step ==
    /\ State \in {"Priming", "Draining"} =>
          UNCHANGED <<time, written_buffers, audioCommits, audioFrames, signal>>
    /\ silentCommits' /= silentCommits =>
          /\ State \in {"Priming", "Draining"}
          /\ lastCommit'.silent
          /\ UNCHANGED <<time, written_buffers, audioCommits, audioFrames, signal>>

\* C18: no step of Priming or Draining changes the clock or written_buffers,
\* and a silence commit adds nothing to the frames counted: the clock is 0
\* at the first streaming fill whatever was committed in priming, and after
\* the drain commit the clock and written_buffers are what the streaming
\* loop left.
C18_SilenceNotCounted == []C18_Inv /\ [][C18_Step]_vars

\* C18 witness: the first streaming window about to be filled, a priming
\* window of more than one period committed.
C18_Witness ==
    /\ pc = "fill"
    /\ written_buffers = 0
    /\ time = 0
    /\ silentCommits = 1
    /\ lastCommit.state = "Priming"
    /\ lastCommit.frames > buffer_size_per_period

C19_Inv ==
    /\ lastWait = [state |-> "Streaming", result |-> "WAIT_FAILED"] => pc = "exit"
    /\ pc \in {"padding", "get", "fill", "release"} =>
          lastWait = [state |-> "Streaming", result |-> "WAIT_OBJECT_0"]
    /\ pc \in {"prime_padding", "prime_get", "prime_release"} =>
          lastWait.state = "Priming"
    /\ pc \in {"drain_padding", "drain_get", "drain_release", "stop", "done"} =>
          lastWait.state = "Draining"

C19_Step ==
    /\ (pc = "wait" /\ lastWait' /= lastWait /\ lastWait'.result = "WAIT_FAILED")
       => (pc' = "exit" /\ lastCall' = lastCall)
    /\ (pc = "wait" /\ lastWait' /= lastWait /\ lastWait'.result = "WAIT_OTHER")
       => (pc' = "wait" /\ lastCall' = lastCall)
    /\ (pc = "wait" /\ pc' \in {"wait", "exit"})
       => UNCHANGED <<lastCall, lastCommit, dev_held, time, written_buffers>>
    /\ (pc = "prime_wait" /\ lastWait' /= lastWait)
       => (pc' = "prime_padding" /\ lastWait'.state = "Priming")
    /\ (pc = "drain_wait" /\ lastWait' /= lastWait)
       => (pc' = "drain_padding" /\ lastWait'.state = "Draining")

\* C19: in Streaming a failed wait ends the process and a wait that returns
\* neither signalled nor failed goes back to the wait, both without a device
\* call; in Priming and Draining main goes on to the capacity query
\* whatever the wait returned.
C19_WaitOutcome == []C19_Inv /\ [][C19_Step]_vars

\* C19 witness: the priming window committed after a failed priming wait.
C19_Witness ==
    /\ lastWait = [state |-> "Priming", result |-> "WAIT_FAILED"]
    /\ lastCall = Call("ReleaseBuffer", buffer_size, TRUE)
    /\ silentCommits = 1
    /\ lastCommit.state = "Priming"

====
